---- MODULE Spec2Model ----
(***************************************************************************)
(* Model of the rocket-token-bot core: the price fallback chain and the    *)
(* synthetic history generator of crypto_api.py (CryptoAPI) and the        *)
(* cleaning / rendering pipeline of chart_generator.py (ChartGenerator).   *)
(*                                                                         *)
(* Python values are modelled as records so that every comparison is       *)
(* between values of one shape:                                            *)
(*   an optional float  [kind |-> "none" | "float" | "raise", v |-> Int]    *)
(*   ("raise" stands for an exception leaving the function).               *)
(* Floats are fixed-point integers: a price p stands for p price units,    *)
(* factors are in thousandths (0.85 is 850).  Rounding of a product is to  *)
(* the unit below, where a float rounds to the nearest representable       *)
(* value; no property checked here depends on the rounding direction.      *)
(***************************************************************************)
EXTENDS Integers, Sequences, FiniteSets, TLC

VARIABLES
    \* ---- get_current_price (one call, step by step)
    resp,           \* what each provider answers when asked: [Providers -> Responses]
    pc,             \* position inside get_current_price
    invoked,        \* the providers requested so far, in order
    price,          \* the local variable `price`
    result,         \* the value get_current_price returned (Raise: it raised)
    \* ---- get_price_history (one call, step by step)
    hpc,            \* position inside get_price_history
    timeframe,      \* the timeframe argument
    current_price,  \* the local variable `current_price`
    now,            \* datetime.now() as read by _get_time_points
    time_points,    \* the list returned by _get_time_points
    prices,         \* the list `prices` of _generate_realistic_prices (see below)
    random_draws,   \* number of random.uniform calls made
    price_data,     \* the value get_price_history returned
    \* ---- create_price_chart, per call c (locals of the call)
    cpc,            \* position inside create_price_chart
    arg,            \* the price_data argument
    timestamps,     \* the list `timestamps`
    cprices,        \* the list `prices` of create_price_chart
    volumes,        \* the list `volumes`
    fig,            \* the figure plt.subplots returned to the call (0: none yet)
    title,          \* the sign token and colour chosen for the title
    laid_out,       \* the figure plt.tight_layout laid out for the call (0: none yet)
    artifact,       \* the figure plt.savefig wrote into the call's temp file
    closed,         \* the figure plt.close closed for the call (0: none yet)
    ret,            \* the value create_price_chart returned
    \* ---- matplotlib.pyplot (module state shared by all calls)
    open_figs       \* the open figures, oldest first; the last is current

vars == <<resp, pc, invoked, price, result,
          hpc, timeframe, current_price, now, time_points, prices,
          random_draws, price_data,
          cpc, arg, timestamps, cprices, volumes, fig, title, laid_out, artifact,
          closed, ret, open_figs>>

priceVars == <<resp, pc, invoked, price, result>>
historyVars == <<hpc, timeframe, current_price, now, time_points, prices,
                 random_draws, price_data>>
chartVars == <<cpc, arg, timestamps, cprices, volumes, fig, title, laid_out,
               artifact, closed, ret, open_figs>>

(***************************************************************************)
(* Bounds of the model.                                                    *)
(***************************************************************************)
\* The magnitude of a non-zero price a provider may report, in price units.
PriceUnit == 50

(***************************************************************************)
(* Python values.                                                          *)
(***************************************************************************)
None == [kind |-> "none", v |-> 0]
Float(x) == [kind |-> "float", v |-> x]
Raise == [kind |-> "raise", v |-> 0]

\* Python truthiness of None or a float, as tested by `if price:` and
\* `if not current_price:`: None and 0.0 are false, every other float
\* (negative ones included) is true.
Truthy(p) == p.kind = "float" /\ p.v # 0

(***************************************************************************)
(* The providers.  A response is what the HTTP request of one provider     *)
(* ends in:                                                                *)
(*   transport_error  requests.get raises (timeout, connection error)      *)
(*   bad_status       status_code # 200                                    *)
(*   malformed_body   response.json() raises, or the body has another      *)
(*                    shape than the one indexed                           *)
(*   missing_field    the container of the price is absent                 *)
(*                    ('data'/address, 'pairs' absent or empty, 'data')    *)
(*   no_price         the container is there, the price key is not         *)
(*   unparsable       the price is there and float() raises on it          *)
(*   price            the price is there and float() yields v              *)
(***************************************************************************)
Providers == {"jupiter", "dexscreener", "birdeye"}

ChainOrder == <<"jupiter", "dexscreener", "birdeye">>

FailureKinds == {"transport_error", "bad_status", "malformed_body",
                 "missing_field", "no_price", "unparsable"}

PriceValues == {-PriceUnit, 0, PriceUnit, 2 * PriceUnit}

Responses == [kind : FailureKinds, v : {0}] \cup [kind : {"price"}, v : PriceValues]

\* The body of a provider method's try block: the value it returns, or Raise
\* where a statement of the block raises.  `default` is what the price lookup
\* yields when the key is absent: Float(0) for .get('price', 0) and
\* .get('priceUsd', 0), None for birdeye, whose `'value' in data['data']`
\* test falls through to `return None`.
TryBlock(r, default) ==
    CASE r.kind = "transport_error" -> Raise
      [] r.kind = "bad_status"      -> None
      [] r.kind = "malformed_body"  -> Raise
      [] r.kind = "missing_field"   -> None
      [] r.kind = "no_price"        -> default
      [] r.kind = "unparsable"      -> Raise
      [] OTHER                      -> Float(r.v)

\* `except Exception as e: logger.error(...); return None`
ExceptReturnNone(outcome) == IF outcome.kind = "raise" THEN None ELSE outcome

\* A provider method whose try/except is missing: the exception leaves it.
NoExcept(r) == TryBlock(r, Float(0))

_get_jupiter_price(r) == ExceptReturnNone(TryBlock(r, Float(0)))

_get_dexscreener_price(r) == ExceptReturnNone(TryBlock(r, Float(0)))

_get_birdeye_price(r) == ExceptReturnNone(TryBlock(r, None))

\* The test `if price:` of get_current_price.
PriceFound(p) == Truthy(p)

(***************************************************************************)
(* get_current_price, one provider per step.                               *)
(* pc: "jupiter" -> "dexscreener" -> "birdeye" -> "done".                  *)
(***************************************************************************)
\* One `price = self._get_X_price(); if price: return price` block, followed
\* by `next` when the price is falsy.  An exception leaving the provider
\* method ends the try block of get_current_price: its `except Exception`
\* logs and returns None.
Attempt(name, outcome, next) ==
    /\ invoked' = Append(invoked, name)
    /\ IF outcome.kind = "raise"
       THEN /\ price' = price
            /\ result' = ExceptReturnNone(outcome)
            /\ pc' = "done"
       ELSE /\ price' = outcome
            /\ IF PriceFound(outcome)
               THEN result' = outcome /\ pc' = "done"
               ELSE IF next = "done"
                    THEN result' = None /\ pc' = "done"
                    ELSE result' = result /\ pc' = next
    /\ UNCHANGED resp

TryJupiter ==
    /\ pc = "jupiter"
    /\ Attempt("jupiter", _get_jupiter_price(resp["jupiter"]), "dexscreener")
    /\ UNCHANGED <<historyVars, chartVars>>

TryDexScreener ==
    /\ pc = "dexscreener"
    /\ Attempt("dexscreener", _get_dexscreener_price(resp["dexscreener"]), "birdeye")
    /\ UNCHANGED <<historyVars, chartVars>>

TryBirdeye ==
    /\ pc = "birdeye"
    /\ Attempt("birdeye", _get_birdeye_price(resp["birdeye"]), "done")
    /\ UNCHANGED <<historyVars, chartVars>>

\* get_current_price as a function of the three answers (the call as a whole).
get_current_price(rs) ==
    LET a == _get_jupiter_price(rs["jupiter"])
        b == _get_dexscreener_price(rs["dexscreener"])
        c == _get_birdeye_price(rs["birdeye"])
    IN  IF a.kind = "raise" THEN None
        ELSE IF PriceFound(a) THEN a
        ELSE IF b.kind = "raise" THEN None
        ELSE IF PriceFound(b) THEN b
        ELSE IF c.kind = "raise" THEN None
        ELSE IF PriceFound(c) THEN c
        ELSE None

(***************************************************************************)
(* Time.  A datetime is a number of minutes since an epoch; isoformat()    *)
(* writes it as <<day, hour, minute>> and fromisoformat() reads that back. *)
(***************************************************************************)
MinutesPerHour == 60
MinutesPerDay == 1440

isoformat(t) == <<t \div MinutesPerDay, (t % MinutesPerDay) \div MinutesPerHour,
                  t % MinutesPerHour>>

fromisoformat(s) == s[1] * MinutesPerDay + s[2] * MinutesPerHour + s[3]

\* The values datetime.now() takes in the model: NowCount instants, the
\* first one NowFirst, NowStride minutes apart.
NowFirst == 525725
NowStride == 1337
NowCount == 1
NowValues == {NowFirst + k * NowStride : k \in 0 .. (NowCount - 1)}

(***************************************************************************)
(* The timeframe table.                                                    *)
(***************************************************************************)
Timeframes == {"1d", "7d", "30d", "90d", "1y"}

\* A timeframe argument outside the table takes the `else` branches.
TimeframeArgs == Timeframes \cup {"other"}

\* range(n - 1, -1, -1) of each branch of _get_time_points: n points.
PointCount(tf) ==
    CASE tf = "1d"  -> 24
      [] tf = "7d"  -> 168
      [] tf = "30d" -> 30
      [] tf = "90d" -> 90
      [] tf = "1y"  -> 365
      [] OTHER      -> 168

\* timedelta(hours=i) or timedelta(days=i) of each branch, in minutes.
Spacing(tf) ==
    CASE tf = "1d"  -> MinutesPerHour
      [] tf = "7d"  -> MinutesPerHour
      [] tf = "30d" -> MinutesPerDay
      [] tf = "90d" -> MinutesPerDay
      [] tf = "1y"  -> MinutesPerDay
      [] OTHER      -> MinutesPerHour

\* [now - delta(i) for i in range(n, 0, -1)]: one step too early throughout.
TimePointsOffByOne(tf, nw) ==
    [k \in 1 .. PointCount(tf) |-> nw - Spacing(tf) * (PointCount(tf) - k + 1)]

\* [now - delta(i) for i in range(n - 1, -1, -1)]
_get_time_points(tf, nw) ==
    [k \in 1 .. PointCount(tf) |-> nw - Spacing(tf) * (PointCount(tf) - k)]

\* volatility_map.get(timeframe, 0.05), in thousandths.
volatility(tf) ==
    CASE tf = "1d"  -> 20
      [] tf = "7d"  -> 30
      [] tf = "30d" -> 50
      [] tf = "90d" -> 70
      [] tf = "1y"  -> 100
      [] OTHER      -> 50

(***************************************************************************)
(* The random walk of _generate_realistic_prices.                          *)
(***************************************************************************)
\* x * (f / 1000), for a factor f in thousandths.
Mul(x, f) == (x * f) \div 1000

\* a / b for b # 0 of either sign.
Quot(a, b) == IF b > 0 THEN a \div b ELSE (-a) \div (-b)

Max(a, b) == IF a >= b THEN a ELSE b
Min(a, b) == IF a <= b THEN a ELSE b

\* random.uniform(lo, hi) takes the two ends and DrawGrid - 1 points between.
DrawGrid == 2
Uniform(lo, hi) == {lo + ((hi - lo) * k) \div DrawGrid : k \in 0 .. DrawGrid}

\* random.uniform(0.85, 1.15), in thousandths.
StartFactors == Uniform(850, 1150)

\* random.uniform(-volatility, volatility), in thousandths.
ChangeFactors(tf) == Uniform(-volatility(tf), volatility(tf))

\* `if i > len(time_points) * 0.8` (0.8 * n is exact or rounds to the same
\* integer part for the five point counts).
InFinalWindow(i, n) == 10 * i > 8 * n

\* bias = (current_price - prices[-1]) / current_price * 0.1, in thousandths.
Bias(cur, last) == Quot((cur - last) * 100, cur)

\* price = max(price, current_price * 0.1); price = min(price, current_price * 3.0)
Clamp(p, cur) == Min(Max(p, Mul(cur, 100)), Mul(cur, 3000))

\* The body of the loop for i > 0: the price appended at index i.
NextPrice(cur, last, d, i, n) ==
    LET change_factor == IF InFinalWindow(i, n) THEN d + Bias(cur, last) ELSE d
    IN  Clamp(Mul(last, 1000 + change_factor), cur)

\* p lies within [0.1 x current, 3.0 x current].
InRange(p, cur) == Mul(cur, 100) <= p /\ p <= Mul(cur, 3000)

(***************************************************************************)
(* The list `prices` holds up to 365 floats, each one of several draws.    *)
(* The model keeps of it what the code reads and what the series is        *)
(* judged by: its length, prices[-1], and whether every element before the *)
(* last (prices[0] included) lies within [0.1 x current, 3.0 x current].   *)
(***************************************************************************)
EmptyPrices == [len |-> 0, last |-> 0, body_in_range |-> TRUE]

\* prices.append(price)
AppendPrice(ps, p, cur) ==
    [len |-> ps.len + 1,
     last |-> p,
     body_in_range |-> ps.body_in_range /\ (ps.len = 0 \/ InRange(ps.last, cur))]

\* The overwrite left out.
KeepLast(ps, cur) == ps

\* prices[-1] = current_price
AnchorLast(ps, cur) == [ps EXCEPT !.last = cur]

NoSeries == [kind |-> "none", timestamps |-> <<>>, prices |-> EmptyPrices]

\* price_data: one entry per time point, 'timestamp': timestamp.isoformat(),
\* 'price': prices[i].  The volumes are draws no line of the code reads back.
Series(tps, ps) ==
    [kind |-> "series",
     timestamps |-> [k \in 1 .. Len(tps) |-> isoformat(tps[k])],
     prices |-> ps]

\* The test left out: the generation runs whatever get_current_price gave.
NeverMissing(p) == FALSE

\* `if not current_price:`
NoBasePrice(p) == ~Truthy(p)

(***************************************************************************)
(* get_price_history, step by step.                                        *)
(* hpc: "idle" -> "generate" -> "walk" -> "done", or "idle" -> "done".     *)
(***************************************************************************)
\* Lines 155-162: resolve the current price; without one return None, with
\* one compute the time points.
HistoryBegin ==
    /\ hpc = "idle"
    /\ \E tf \in TimeframeArgs, rs \in [Providers -> Responses], nw \in NowValues :
        LET cp == get_current_price(rs) IN
        /\ timeframe' = tf
        /\ current_price' = cp
        /\ IF NoBasePrice(cp)
           THEN /\ hpc' = "done"
                /\ price_data' = NoSeries
                /\ UNCHANGED <<now, time_points>>
           ELSE /\ hpc' = "generate"
                /\ now' = nw
                /\ time_points' = _get_time_points(tf, nw)
                /\ UNCHANGED price_data
    /\ UNCHANGED <<prices, random_draws>>
    /\ UNCHANGED <<priceVars, chartVars>>

\* Lines 198-216, 232: start_price and the iteration i = 0.
WalkStart ==
    /\ hpc = "generate"
    /\ \E f \in StartFactors :
        prices' = AppendPrice(EmptyPrices, Mul(current_price.v, f), current_price.v)
    /\ random_draws' = random_draws + 1
    /\ hpc' = "walk"
    /\ UNCHANGED <<timeframe, current_price, now, time_points, price_data>>
    /\ UNCHANGED <<priceVars, chartVars>>

\* Lines 217-232: one iteration i > 0.
WalkStep ==
    /\ hpc = "walk"
    /\ prices.len < Len(time_points)
    /\ \E d \in ChangeFactors(timeframe) :
        prices' = AppendPrice(prices,
                              NextPrice(current_price.v, prices.last, d,
                                        prices.len, Len(time_points)),
                              current_price.v)
    /\ random_draws' = random_draws + 1
    /\ UNCHANGED <<hpc, timeframe, current_price, now, time_points, price_data>>
    /\ UNCHANGED <<priceVars, chartVars>>

\* Lines 234-246 and 167: the overwrite of the last price, the assembly of
\* price_data (one volume draw per point) and the return.
WalkFinish ==
    /\ hpc = "walk"
    /\ prices.len = Len(time_points)
    /\ prices' = AnchorLast(prices, current_price.v)
    /\ price_data' = Series(time_points, prices')
    /\ random_draws' = random_draws + Len(time_points)
    /\ hpc' = "done"
    /\ UNCHANGED <<timeframe, current_price, now, time_points>>
    /\ UNCHANGED <<priceVars, chartVars>>

(***************************************************************************)
(* create_price_chart.                                                     *)
(*                                                                         *)
(* A point of the argument is a dict; each of its three fields is          *)
(*   timestamp  [kind |-> "str", v |-> <<day, hour, minute>>]  an ISO text *)
(*              [kind |-> "badstr"]   a text fromisoformat() rejects       *)
(*              [kind |-> "missing"]  no 'timestamp' key                   *)
(*   price      [kind |-> "number", v |-> p]  a finite number              *)
(*              [kind |-> "nan"]      float('nan'), which float() accepts  *)
(*              [kind |-> "text"]     a value float() raises on            *)
(*              [kind |-> "missing"]  no 'price' key                       *)
(*   volume     [kind |-> "number", v |-> q], "text" or "missing"          *)
(***************************************************************************)
Calls == {1, 2}

\* The longest argument of a call.
MaxPoints == 3

NaN == [kind |-> "nan", v |-> 0]

Str(t) == [kind |-> "str", v |-> isoformat(t)]
BadStr == [kind |-> "badstr", v |-> <<>>]
Missing == [kind |-> "missing", v |-> 0]
MissingTs == [kind |-> "missing", v |-> <<>>]
Number(x) == [kind |-> "number", v |-> x]
Text == [kind |-> "text", v |-> 0]

\* The time of the k-th point of a well-formed series (hourly points).
PointTime(k) == k * MinutesPerHour

SeriesPrices == {-1, 0, 1, 2}

GoodPoint(k, p) == [timestamp |-> Str(PointTime(k)), price |-> Number(p),
                    volume |-> Number(5)]

\* The points that may stand at position k: the well-formed ones, and the
\* ones with one field missing or of the wrong kind.
PointsAt(k) ==
    {GoodPoint(k, p) : p \in SeriesPrices}
    \cup {[GoodPoint(k, 1) EXCEPT !.timestamp = x] : x \in {BadStr, MissingTs}}
    \cup {[GoodPoint(k, 1) EXCEPT !.price = x] : x \in {NaN, Text, Missing}}
    \cup {[GoodPoint(k, 1) EXCEPT !.volume = x] : x \in {Text, Missing}}

\* Every argument of at most MaxPoints points (None and [] are both <<>>).
RECURSIVE SeriesOfLen(_)
SeriesOfLen(n) ==
    IF n = 0 THEN {<<>>}
    ELSE {Append(s, pt) : s \in SeriesOfLen(n - 1), pt \in PointsAt(n)}

ChartInputs == UNION {SeriesOfLen(n) : n \in 0 .. MaxPoints}

\* datetime.fromisoformat(point['timestamp'].replace('Z', '+00:00'))
ParseTimestamp(x) ==
    IF x.kind = "str" THEN [kind |-> "ok", v |-> fromisoformat(x.v)]
    ELSE Raise

\* float(point['price'])
ParsePrice(x) ==
    CASE x.kind = "number" -> Float(x.v)
      [] x.kind = "nan"    -> NaN
      [] OTHER             -> Raise

\* float(point.get('volume', 0))
ParseVolume(x) ==
    CASE x.kind = "number"  -> Float(x.v)
      [] x.kind = "missing" -> Float(0)
      [] x.kind = "nan"     -> NaN
      [] OTHER              -> Raise

\* The body of the cleaning loop for one point: the three appends in the
\* order of the code, cut short by the first statement that raises.
CleanPoint(acc, pt) ==
    LET t == ParseTimestamp(pt.timestamp)
        p == ParsePrice(pt.price)
        v == ParseVolume(pt.volume)
    IN  IF t.kind = "raise" THEN acc
        ELSE IF p.kind = "raise"
             THEN [acc EXCEPT !.timestamps = Append(@, t.v)]
        ELSE IF v.kind = "raise"
             THEN [acc EXCEPT !.timestamps = Append(@, t.v),
                              !.prices = Append(@, p)]
        ELSE [timestamps |-> Append(acc.timestamps, t.v),
              prices |-> Append(acc.prices, p),
              volumes |-> Append(acc.volumes, v)]

NoLists == [timestamps |-> <<>>, prices |-> <<>>, volumes |-> <<>>]

\* for point in price_data: try: ... except: continue
RECURSIVE CleanFrom(_, _, _)
CleanFrom(points, k, acc) ==
    IF k > Len(points) THEN acc
    ELSE CleanFrom(points, k + 1, CleanPoint(acc, points[k]))

Clean(points) == CleanFrom(points, 1, NoLists)

\* `if len(timestamps) < 2:`
TooFew(lists) == Len(lists.timestamps) < 2

\* ax1.plot(timestamps, prices) raises on lists of different lengths;
\* ax2.bar(timestamps, volumes) raises on lengths that do not broadcast (a
\* single volume broadcasts to every bar).
PlotRaises(ts, ps, vs) ==
    \/ Len(ps) # Len(ts)
    \/ Len(vs) # Len(ts) /\ Len(vs) # 1

NoTitle == [sign |-> "none", color |-> "none"]

\* price_change = ((prices[-1] - prices[0]) / prices[0]) * 100, then
\* change_color and change_symbol from `price_change >= 0`, and the number
\* formatted into the title.  The sign token of the title is the '+' of
\* change_symbol, or the '-' the formatted number carries; a NaN change
\* compares false and carries no sign.  A zero first price raises
\* ZeroDivisionError.
TitleFor(ps) ==
    LET first == ps[1]
        last == ps[Len(ps)]
    IN  IF first.kind = "float" /\ first.v = 0 THEN Raise
        ELSE IF first.kind = "nan" \/ last.kind = "nan"
             THEN [sign |-> "", color |-> "negative"]
        ELSE LET price_change == Quot((last.v - first.v) * 10000, first.v)
             IN  IF price_change >= 0
                 THEN [sign |-> "+", color |-> "positive"]
                 ELSE [sign |-> "-", color |-> "negative"]

NoPath == [kind |-> "none", file |-> 0]
Path(f) == [kind |-> "path", file |-> f]

(***************************************************************************)
(* create_price_chart, step by step, for call c.                           *)
(* cpc: "start" -> "subplots" -> "plot" -> "title" -> "layout" -> "save"   *)
(*      -> "close" -> "done"; `return None` leads to "done" from "start",  *)
(*      "plot" and "title".                                                *)
(***************************************************************************)
\* Lines 38-59: the empty test, the cleaning loop, the length test.
ChartClean(c) ==
    /\ cpc[c] = "start"
    /\ LET lists == IF arg[c] = <<>> THEN NoLists ELSE Clean(arg[c]) IN
       /\ timestamps' = [timestamps EXCEPT ![c] = lists.timestamps]
       /\ cprices' = [cprices EXCEPT ![c] = lists.prices]
       /\ volumes' = [volumes EXCEPT ![c] = lists.volumes]
       /\ IF arg[c] = <<>> \/ TooFew(lists)
          THEN /\ cpc' = [cpc EXCEPT ![c] = "done"]
               /\ ret' = [ret EXCEPT ![c] = NoPath]
          ELSE /\ cpc' = [cpc EXCEPT ![c] = "subplots"]
               /\ UNCHANGED ret
    /\ UNCHANGED <<arg, fig, title, laid_out, artifact, closed, open_figs>>
    /\ UNCHANGED <<priceVars, historyVars>>

\* Lines 62-64: plt.subplots creates a figure and makes it current.
ChartSubplots(c) ==
    /\ cpc[c] = "subplots"
    /\ fig' = [fig EXCEPT ![c] = c]
    /\ open_figs' = Append(open_figs, c)
    /\ cpc' = [cpc EXCEPT ![c] = "plot"]
    /\ UNCHANGED <<arg, timestamps, cprices, volumes, title, laid_out, artifact,
                   closed, ret>>
    /\ UNCHANGED <<priceVars, historyVars>>

\* Lines 67-106: the two panels.  An exception is caught at line 135 and the
\* call returns None; the figure stays open.
ChartPlot(c) ==
    /\ cpc[c] = "plot"
    /\ IF PlotRaises(timestamps[c], cprices[c], volumes[c])
       THEN /\ cpc' = [cpc EXCEPT ![c] = "done"]
            /\ ret' = [ret EXCEPT ![c] = NoPath]
       ELSE /\ cpc' = [cpc EXCEPT ![c] = "title"]
            /\ UNCHANGED ret
    /\ UNCHANGED <<arg, timestamps, cprices, volumes, fig, title, laid_out, artifact,
                   closed, open_figs>>
    /\ UNCHANGED <<priceVars, historyVars>>

\* Lines 109-121: the percent change, the title and the annotation.
ChartTitle(c) ==
    /\ cpc[c] = "title"
    /\ LET t == TitleFor(cprices[c]) IN
       IF t = Raise
       THEN /\ cpc' = [cpc EXCEPT ![c] = "done"]
            /\ ret' = [ret EXCEPT ![c] = NoPath]
            /\ UNCHANGED title
       ELSE /\ cpc' = [cpc EXCEPT ![c] = "layout"]
            /\ title' = [title EXCEPT ![c] = t]
            /\ UNCHANGED ret
    /\ UNCHANGED <<arg, timestamps, cprices, volumes, fig, laid_out, artifact, closed,
                   open_figs>>
    /\ UNCHANGED <<priceVars, historyVars>>

\* The figure pyplot acts on: the one created or activated last.
CurrentFigure == IF open_figs = <<>> THEN 0 ELSE open_figs[Len(open_figs)]

\* Line 124: plt.tight_layout() lays out the current figure.
ChartLayout(c) ==
    /\ cpc[c] = "layout"
    /\ laid_out' = [laid_out EXCEPT ![c] = CurrentFigure]
    /\ cpc' = [cpc EXCEPT ![c] = "save"]
    /\ UNCHANGED <<arg, timestamps, cprices, volumes, fig, title, artifact, closed,
                   ret, open_figs>>
    /\ UNCHANGED <<priceVars, historyVars>>

\* Lines 127-129: a new temporary file, and plt.savefig of the current
\* figure into it.
ChartSave(c) ==
    /\ cpc[c] = "save"
    /\ artifact' = [artifact EXCEPT ![c] = CurrentFigure]
    /\ cpc' = [cpc EXCEPT ![c] = "close"]
    /\ UNCHANGED <<arg, timestamps, cprices, volumes, fig, title, laid_out, closed,
                   ret, open_figs>>
    /\ UNCHANGED <<priceVars, historyVars>>

\* Lines 130-133: plt.close() closes the current figure; the file's name is
\* returned.
ChartClose(c) ==
    /\ cpc[c] = "close"
    /\ closed' = [closed EXCEPT ![c] = CurrentFigure]
    /\ open_figs' = IF open_figs = <<>> THEN open_figs
                    ELSE SubSeq(open_figs, 1, Len(open_figs) - 1)
    /\ ret' = [ret EXCEPT ![c] = Path(c)]
    /\ cpc' = [cpc EXCEPT ![c] = "done"]
    /\ UNCHANGED <<arg, timestamps, cprices, volumes, fig, title, laid_out, artifact>>
    /\ UNCHANGED <<priceVars, historyVars>>

ChartIdle ==
    /\ cpc = [c \in Calls |-> "idle"]
    /\ arg = [c \in Calls |-> <<>>]
    /\ timestamps = [c \in Calls |-> <<>>]
    /\ cprices = [c \in Calls |-> <<>>]
    /\ volumes = [c \in Calls |-> <<>>]
    /\ fig = [c \in Calls |-> 0]
    /\ title = [c \in Calls |-> NoTitle]
    /\ laid_out = [c \in Calls |-> 0]
    /\ artifact = [c \in Calls |-> 0]
    /\ closed = [c \in Calls |-> 0]
    /\ ret = [c \in Calls |-> NoPath]
    /\ open_figs = <<>>

HistoryIdle ==
    /\ hpc = "idle"
    /\ timeframe = "7d"
    /\ current_price = None
    /\ now = 0
    /\ time_points = <<>>
    /\ prices = EmptyPrices
    /\ random_draws = 0
    /\ price_data = NoSeries

PriceIdle ==
    /\ resp = [p \in Providers |-> [kind |-> "bad_status", v |-> 0]]
    /\ pc = "idle"
    /\ invoked = <<>>
    /\ price = None
    /\ result = None

(***************************************************************************)
(* Spec: one call of get_current_price against every triple of answers.    *)
(***************************************************************************)
Init ==
    /\ resp \in [Providers -> Responses]
    /\ pc = "jupiter"
    /\ invoked = <<>>
    /\ price = None
    /\ result = None
    /\ HistoryIdle
    /\ ChartIdle

Next == TryJupiter \/ TryDexScreener \/ TryBirdeye

Spec == Init /\ [][Next]_vars

(***************************************************************************)
(* SpecHistory: one call of get_price_history, for every timeframe, every  *)
(* triple of provider answers and every sequence of draws.                 *)
(***************************************************************************)
InitHistory == PriceIdle /\ HistoryIdle /\ ChartIdle

NextHistory == HistoryBegin \/ WalkStart \/ WalkStep \/ WalkFinish

SpecHistory == InitHistory /\ [][NextHistory]_vars

(***************************************************************************)
(* SpecChart: one call of create_price_chart on every argument of at most  *)
(* MaxPoints points.                                                       *)
(***************************************************************************)
InitChart ==
    /\ PriceIdle
    /\ HistoryIdle
    /\ cpc = [c \in Calls |-> IF c = 1 THEN "start" ELSE "idle"]
    /\ arg \in {[c \in Calls |-> IF c = 1 THEN a ELSE <<>>] : a \in ChartInputs}
    /\ timestamps = [c \in Calls |-> <<>>]
    /\ cprices = [c \in Calls |-> <<>>]
    /\ volumes = [c \in Calls |-> <<>>]
    /\ fig = [c \in Calls |-> 0]
    /\ title = [c \in Calls |-> NoTitle]
    /\ laid_out = [c \in Calls |-> 0]
    /\ artifact = [c \in Calls |-> 0]
    /\ closed = [c \in Calls |-> 0]
    /\ ret = [c \in Calls |-> NoPath]
    /\ open_figs = <<>>

ChartStep(c) ==
    \/ ChartClean(c)
    \/ ChartSubplots(c)
    \/ ChartPlot(c)
    \/ ChartTitle(c)
    \/ ChartLayout(c)
    \/ ChartSave(c)
    \/ ChartClose(c)

NextChart == \E c \in Calls : ChartStep(c)

SpecChart == InitChart /\ [][NextChart]_vars

(***************************************************************************)
(* SpecConcurrent: every call of Calls runs create_price_chart on one      *)
(* ChartGenerator at the same time, as the handlers of a threaded bot do;  *)
(* the steps of the calls interleave in every order.  The arguments are    *)
(* the two-point series whose first point is well formed and whose second  *)
(* point has a price of any kind.                                          *)
(***************************************************************************)
ConcurrentInputs ==
    {s \in SeriesOfLen(2) :
        /\ s[1].timestamp.kind = "str" /\ s[2].timestamp.kind = "str"
        /\ s[1].price.kind = "number"
        /\ s[1].volume.kind = "number" /\ s[2].volume.kind = "number"}

InitConcurrent ==
    /\ PriceIdle
    /\ HistoryIdle
    /\ cpc = [c \in Calls |-> "start"]
    /\ arg \in [Calls -> ConcurrentInputs]
    /\ timestamps = [c \in Calls |-> <<>>]
    /\ cprices = [c \in Calls |-> <<>>]
    /\ volumes = [c \in Calls |-> <<>>]
    /\ fig = [c \in Calls |-> 0]
    /\ title = [c \in Calls |-> NoTitle]
    /\ laid_out = [c \in Calls |-> 0]
    /\ artifact = [c \in Calls |-> 0]
    /\ closed = [c \in Calls |-> 0]
    /\ ret = [c \in Calls |-> NoPath]
    /\ open_figs = <<>>

SpecConcurrent == InitConcurrent /\ [][NextChart]_vars

(***************************************************************************)
(* Properties of get_current_price (checked under Spec).                   *)
(***************************************************************************)
\* The step-by-step call returns what the call as a whole computes.
StepwiseAgrees == pc = "done" => result = get_current_price(resp)

\* A provider's answer carries a valid positive price.
ValidPositive(r) == r.kind = "price" /\ r.v > 0

IsPrefix(s, t) == Len(s) <= Len(t) /\ \A k \in 1 .. Len(s) : s[k] = t[k]

\* The position in the chain of the first provider whose answer carries a
\* valid positive price (empty when there is none).
FirstValid ==
    {k \in 1 .. 3 : /\ ValidPositive(resp[ChainOrder[k]])
                    /\ \A j \in 1 .. (k - 1) : ~ValidPositive(resp[ChainOrder[j]])}

\* C1: the providers are invoked in the order jupiter, dexscreener, birdeye;
\* a provider is invoked only if every earlier one failed to yield a valid
\* positive price; the call returns the price of the first provider that
\* yields a valid positive price and invokes no provider after that one.
C1_FirstValidPriceWins ==
    /\ IsPrefix(invoked, ChainOrder)
    /\ \A k \in 2 .. Len(invoked) :
           \A j \in 1 .. (k - 1) : ~ValidPositive(resp[ChainOrder[j]])
    /\ pc = "done" =>
           \A k \in FirstValid :
               result = Float(resp[ChainOrder[k]].v) /\ Len(invoked) = k

\* What the code does instead: the chain stops at the first provider whose
\* price is truthy (non-zero, of either sign), and returns that price.
ChainStopsAtFirstTruthy ==
    /\ IsPrefix(invoked, ChainOrder)
    /\ \A k \in 2 .. Len(invoked) :
           \A j \in 1 .. (k - 1) :
               ~(resp[ChainOrder[j]].kind = "price" /\ resp[ChainOrder[j]].v # 0)
    /\ pc = "done" =>
           \/ result = None /\ invoked = ChainOrder
           \/ /\ result = Float(resp[ChainOrder[Len(invoked)]].v)
              /\ resp[ChainOrder[Len(invoked)]].kind = "price"
              /\ result.v # 0

\* C2: if all three providers fail (transport error or timeout, non-200
\* status, malformed body, missing field, unparsable price), the call
\* returns None; it never raises; and a provider that fails in one of these
\* ways is always followed by a request to the next provider.
C2_AllFailReturnsNone ==
    /\ result.kind # "raise"
    /\ (pc = "done" /\ \A p \in Providers : resp[p].kind \in FailureKinds)
           => (result = None /\ invoked = ChainOrder)
    /\ \A k \in 1 .. 2 :
           (pc = "done" /\ Len(invoked) = k)
               => resp[ChainOrder[k]].kind \notin FailureKinds

\* All three providers were asked, each failed in a different way, and the
\* call returned None.
C2_Witness ==
    /\ pc = "done"
    /\ resp["jupiter"].kind = "transport_error"
    /\ resp["dexscreener"].kind = "malformed_body"
    /\ resp["birdeye"].kind = "unparsable"
    /\ invoked = ChainOrder
    /\ result = None

\* C3: a non-positive or absent price is a failure of that provider only,
\* so every value the call returns other than None is a strictly positive
\* number.
C3_ReturnedPriceIsPositive ==
    pc = "done" => (result = None \/ (result.kind = "float" /\ result.v > 0))

(***************************************************************************)
(* Properties of get_price_history (checked under SpecHistory).            *)
(***************************************************************************)
Returned == hpc = "done" /\ price_data.kind = "series"

\* C4: the last point of the returned series has exactly the current price
\* resolved within the same call, whatever the draws.
C4_LastPriceIsCurrent ==
    Returned =>
        /\ price_data.prices.len = Len(price_data.timestamps)
        /\ price_data.prices.len >= 1
        /\ price_data.prices.last = current_price.v

\* A one-year series was returned after a walk of 365 draws.
C4_Witness ==
    /\ Returned
    /\ timeframe = "1y"
    /\ price_data.prices.len = 365
    /\ current_price = Float(PriceUnit)
    /\ price_data.prices.last = PriceUnit

\* C5: every price of the returned series, at every index, lies within
\* [0.1 x current, 3.0 x current].
C5_AllPricesInRange ==
    Returned =>
        /\ price_data.prices.body_in_range
        /\ InRange(price_data.prices.last, current_price.v)

\* The same for the series generated from a positive current price.
InRangeWhenCurrentPositive ==
    (Returned /\ current_price.v > 0) =>
        /\ price_data.prices.body_in_range
        /\ InRange(price_data.prices.last, current_price.v)

\* While the walk runs on a positive current price, the price just appended
\* is within the range too.
WalkInRangeWhenCurrentPositive ==
    (hpc = "walk" /\ current_price.v > 0) =>
        /\ prices.body_in_range
        /\ InRange(prices.last, current_price.v)

\* The point count of each timeframe's table entry.
TableCount ==
    [tf \in Timeframes |->
        CASE tf = "1d" -> 24 [] tf = "7d" -> 168 [] tf = "30d" -> 30
          [] tf = "90d" -> 90 [] tf = "1y" -> 365]

\* The spacing of each timeframe's table entry, in minutes.
TableSpacing ==
    [tf \in Timeframes |-> IF tf \in {"1d", "7d"} THEN 60 ELSE 1440]

\* <<day, hour, minute>> a is earlier than b.
Earlier(a, b) ==
    \/ a[1] < b[1]
    \/ a[1] = b[1] /\ a[2] < b[2]
    \/ a[1] = b[1] /\ a[2] = b[2] /\ a[3] < b[3]

\* C6: for each of the five timeframes the returned series has the point
\* count of the table, timestamps strictly ascending at the timeframe's
\* spacing, and its last timestamp is `now`.
C6_CountAndTimestamps ==
    (Returned /\ timeframe \in Timeframes) =>
        LET ts == price_data.timestamps IN
        /\ Len(ts) = TableCount[timeframe]
        /\ ts[Len(ts)] = isoformat(now)
        /\ \A k \in 1 .. (Len(ts) - 1) :
               /\ Earlier(ts[k], ts[k + 1])
               /\ fromisoformat(ts[k + 1]) - fromisoformat(ts[k])
                      = TableSpacing[timeframe]

\* A 30-day series was returned whose first timestamp lies 29 days before now.
C6_Witness ==
    /\ Returned
    /\ timeframe = "30d"
    /\ Len(price_data.timestamps) = 30
    /\ fromisoformat(price_data.timestamps[30])
           - fromisoformat(price_data.timestamps[1]) = 29 * 1440

\* C7: when get_current_price yields None inside get_price_history, the
\* call returns None and no generation step has run: no time point was
\* computed, no random value drawn, no series built.
C7_NoPriceNoGeneration ==
    (hpc # "idle" /\ current_price = None) =>
        /\ hpc = "done"
        /\ price_data = NoSeries
        /\ time_points = <<>>
        /\ random_draws = 0
        /\ prices = EmptyPrices

\* The call returned None because no provider gave a price.
C7_Witness ==
    /\ hpc = "done"
    /\ current_price = None
    /\ price_data = NoSeries
    /\ random_draws = 0

(***************************************************************************)
(* Properties of create_price_chart (checked under SpecChart).             *)
(***************************************************************************)
\* A valid point: a parseable timestamp and a numeric, finite price.
ValidPoint(pt) == pt.timestamp.kind = "str" /\ pt.price.kind = "number"

ValidIndexes(points) == {k \in 1 .. Len(points) : ValidPoint(points[k])}

ValidCount(points) == Cardinality(ValidIndexes(points))

\* C8: on a series with fewer than 2 valid points the call returns the
\* failure result and never attempts to draw: no figure is created and no
\* plotting or saving step is reached.
C8_FewValidPointsNeverDraw ==
    \A c \in Calls :
        (cpc[c] # "idle" /\ ValidCount(arg[c]) < 2) =>
            /\ fig[c] = 0
            /\ cpc[c] \notin {"plot", "title", "layout", "save", "close"}
            /\ artifact[c] = 0
            /\ cpc[c] = "done" => ret[c] = NoPath

\* What the code guarantees instead: no figure without two parsed timestamps.
FewTimestampsNeverDraw ==
    \A c \in Calls :
        (cpc[c] \notin {"idle", "start"} /\ Len(timestamps[c]) < 2) =>
            cpc[c] = "done" /\ fig[c] = 0 /\ ret[c] = NoPath

\* The valid points of a series, in order.
ValidPoints(points) == SelectSeq(points, ValidPoint)

TimeOf(pt) == fromisoformat(pt.timestamp.v)
PriceOf(pt) == Float(pt.price.v)
VolumeOf(pt) == IF pt.volume.kind = "missing" THEN Float(0) ELSE Float(pt.volume.v)

\* The timestamps, prices and volumes of the valid points, in order.
ValidTimes(points) ==
    [k \in 1 .. Len(ValidPoints(points)) |-> TimeOf(ValidPoints(points)[k])]
ValidPrices(points) ==
    [k \in 1 .. Len(ValidPoints(points)) |-> PriceOf(ValidPoints(points)[k])]
ValidVolumes(points) ==
    [k \in 1 .. Len(ValidPoints(points)) |-> VolumeOf(ValidPoints(points)[k])]

\* One malformed point among at least two valid ones, the valid ones with
\* positive prices and a numeric or missing volume.
OneMalformedAmongValid(points) ==
    /\ ValidCount(points) >= 2
    /\ ValidCount(points) = Len(points) - 1
    /\ \A k \in ValidIndexes(points) :
           /\ points[k].price.v > 0
           /\ points[k].volume.kind \in {"number", "missing"}

\* C9: on a series with one malformed point among at least 2 valid points
\* the call succeeds and uses only the valid points: the cleaned timestamp,
\* price and volume lists have the same length and hold, position by
\* position, the values of the valid points.
C9_MalformedPointSkipped ==
    \A c \in Calls :
        (cpc[c] = "done" /\ OneMalformedAmongValid(arg[c])) =>
            /\ ret[c].kind = "path"
            /\ timestamps[c] = ValidTimes(arg[c])
            /\ cprices[c] = ValidPrices(arg[c])
            /\ volumes[c] = ValidVolumes(arg[c])

\* What the code guarantees instead: a point whose timestamp does not parse
\* is skipped whole.
BadTimestampSkipped ==
    \A c \in Calls :
        (/\ cpc[c] = "done"
         /\ OneMalformedAmongValid(arg[c])
         /\ \E k \in 1 .. Len(arg[c]) : arg[c][k].timestamp.kind # "str") =>
            /\ ret[c].kind = "path"
            /\ timestamps[c] = ValidTimes(arg[c])
            /\ cprices[c] = ValidPrices(arg[c])
            /\ volumes[c] = ValidVolumes(arg[c])

\* C10: in every chart rendered successfully, the sign token and colour of
\* the title match sign(last price - first price) of the cleaned series,
\* zero counting as non-negative.
C10_TitleSignMatches ==
    \A c \in Calls :
        ret[c].kind = "path" =>
            LET first == cprices[c][1]
                last == cprices[c][Len(cprices[c])]
            IN  (first.kind = "float" /\ last.kind = "float") =>
                    IF last.v - first.v >= 0
                    THEN title[c] = [sign |-> "+", color |-> "positive"]
                    ELSE title[c] = [sign |-> "-", color |-> "negative"]

\* What the code guarantees instead: the same for a positive first price.
TitleSignMatchesWhenFirstPositive ==
    \A c \in Calls :
        ret[c].kind = "path" =>
            LET first == cprices[c][1]
                last == cprices[c][Len(cprices[c])]
            IN  (first.kind = "float" /\ last.kind = "float" /\ first.v > 0) =>
                    IF last.v - first.v >= 0
                    THEN title[c] = [sign |-> "+", color |-> "positive"]
                    ELSE title[c] = [sign |-> "-", color |-> "negative"]

(***************************************************************************)
(* Properties of concurrent create_price_chart calls (SpecConcurrent).     *)
(***************************************************************************)
\* C11: concurrent calls do not interfere through shared state: under every
\* interleaving each call lays out, saves into its own artifact and closes
\* the figure it created itself, never a figure created by another call.
C11_CallsUseOwnFigure ==
    \A c \in Calls :
        /\ laid_out[c] # 0 => laid_out[c] = fig[c]
        /\ artifact[c] # 0 => artifact[c] = fig[c]
        /\ closed[c] # 0 => closed[c] = fig[c]
        /\ ret[c].kind = "path" =>
               (artifact[c] = fig[c] /\ closed[c] = fig[c] /\ fig[c] # 0)

\* What the code guarantees instead: pyplot always has a current figure when
\* a call lays out, saves or closes, and it is a figure some call created.
SomeFigureIsCurrent ==
    \A c \in Calls :
        cpc[c] \in {"layout", "save", "close"} =>
            /\ open_figs # <<>>
            /\ \E d \in Calls : fig[d] = CurrentFigure

\* A call that runs alone does use its own figure.
AloneUsesOwnFigure ==
    (\A d \in Calls : d # 1 => cpc[d] = "idle") => C11_CallsUseOwnFigure

====
